---------------------------- MODULE Spec2Model ----------------------------
(***************************************************************************)
(* Clock-slaved monophonic MIDI phrase player (Arduino UNO R4 WiFi).       *)
(*                                                                         *)
(* The repository holds three revisions of the same sketch:                *)
(*   "MidiMcpPlayer"  src/MidiMcpPlayer/MidiMcpPlayer.ino  REST loader     *)
(*                    with tick scaling, looping playback, trigger button  *)
(*   "Rest"           src/unnamed/part_000   REST loader, no scaling,      *)
(*                    playback stops at the end of the sequence            *)
(*   "Mcp"            src/unnamed/part_001   tools/call loader, countdown  *)
(*                    timing (ticksRemaining), stops at the end            *)
(* The variable sketch says which revision is flashed; it never changes,   *)
(* except where two boards are driven side by side (twin).                 *)
(*                                                                         *)
(* st holds the globals of the sketch.  Every C function is an operator    *)
(* from a state record to a state record; one action runs one handler of   *)
(* loop() to completion.                                                   *)
(***************************************************************************)
EXTENDS Integers, Sequences, FiniteSets, TLC

VARIABLES
    sketch,     \* which revision of the sketch is running
    st,         \* the globals of the sketch (see InitState)
    lastOp,     \* the handler that ran last, with its outcome
    monitor,    \* whether a receiver is attached to the MIDI output
    sounding,   \* the receiver's view: <<channel, note>> pairs switched on
    posted,     \* the body of the last load request, where loads are studied
    twin        \* the globals of a second board, where two revisions are compared

vars == <<sketch, st, lastOp, monitor, sounding, posted, twin>>

-----------------------------------------------------------------------------
(* Program constants *)

DEFAULT_MIDI_CHANNEL == 1
MAX_EVENTS == 64
TRIGGER_NOTE == 60
TRIGGER_VELOCITY == 100
debounceDelay == 30
AppliedTicksPerQuarter == 24
MaxTicks == 65535
DefaultVelocity == 100

HIGH == TRUE
LOW == FALSE

(* Bounds of the model *)

\* Clock pulses are delivered only while the tick position is below this.
MaxClock == 4

\* Width in bits of clockPosition and eventEndTick (uint32_t), and the width
\* of a build with narrow counters, in which the counters wrap within reach.
CounterBits == 32

NarrowBits == 3

\* Milliseconds between two polls of the buttons in the study of the debounce.
MillisStep == 1

Sketches == {"MidiMcpPlayer", "Rest", "Mcp"}

\* part_001 counts the current event down; the other two compare an absolute
\* tick position with the tick at which the event ends.
Countdown == sketch = "Mcp"
Looping == sketch = "MidiMcpPlayer"
HasScaler == sketch = "MidiMcpPlayer"
HasTrigger == sketch = "MidiMcpPlayer"

-----------------------------------------------------------------------------
(* Outbound MIDI *)

NoteOn(note, velocity, channel) ==
    [type |-> "on", note |-> note, velocity |-> velocity, channel |-> channel]

NoteOff(note, channel) ==
    [type |-> "off", note |-> note, velocity |-> 0, channel |-> channel]

\* sequence.channel == 0 ? DEFAULT_MIDI_CHANNEL : sequence.channel
OutChannel(s) == IF s.channel = 0 THEN DEFAULT_MIDI_CHANNEL ELSE s.channel

Send(s, msg) == [s EXCEPT !.out = Append(@, msg)]

\* What a receiver makes of the bytes sent: a Note On switches the key of that
\* channel on, a Note Off switches it off.
RECURSIVE Receive(_, _)
Receive(keys, msgs) ==
    IF msgs = <<>> THEN keys
    ELSE LET m == Head(msgs)
             k == <<m.channel, m.note>>
         IN Receive(IF m.type = "on" THEN keys \cup {k} ELSE keys \ {k},
                    Tail(msgs))

-----------------------------------------------------------------------------
(* The globals after setup() *)

InitState ==
    [ events |-> <<>>,              \* sequence.events[0 .. count-1]
      count |-> 0,                  \* sequence.count
      channel |-> DEFAULT_MIDI_CHANNEL,
      sourceTicksPerQuarter |-> 24,
      appliedTicksPerQuarter |-> 24,
      ticksPerQuarterProvided |-> FALSE,
      autoScaledTicks |-> FALSE,
      sequenceLoaded |-> FALSE,
      playing |-> FALSE,
      startPending |-> FALSE,
      midiRunning |-> FALSE,
      currentEventIndex |-> 0,
      clockPosition |-> 0,
      eventEndTick |-> 0,
      ticksRemaining |-> 0,
      noteActive |-> FALSE,
      activeNote |-> 0,
      activeVelocity |-> 0,
      buttonState |-> HIGH,
      lastButtonReading |-> HIGH,
      sinceDebounce |-> 0,          \* millis() - lastDebounceTime, saturated
      triggerButtonState |-> HIGH,
      lastTriggerButtonReading |-> HIGH,
      sinceTriggerDebounce |-> 0,   \* millis() - lastTriggerDebounceTime
      \* bookkeeping of the run, never read by the handlers:
      out |-> <<>>,                 \* MIDI messages sent by the last handler
      onChannel |-> 0,              \* channel of the Note On of activeNote
      unmatched |-> 0,              \* sequence Note Ons minus Note Offs sent
      pulses |-> 0,                 \* clock pulses since the event started
      done |-> <<>>,                \* events finished by the last handler
      spin |-> FALSE,               \* the clock handler's loop did not end
      counterBits |-> CounterBits ] \* width of the tick counters

\* Unsigned arithmetic on the tick counters.  At full width the values of the
\* model stay far below 2^32, where reduction changes nothing.
Wrap(s, x) == IF s.counterBits >= 31 THEN x ELSE x % (2 ^ s.counterBits)

\* Entry of a handler: nothing sent yet, nothing finished yet.
Enter(s) == [s EXCEPT !.out = <<>>, !.done = <<>>, !.spin = FALSE]

-----------------------------------------------------------------------------
(* Playback engine *)

\* A stopPlayback() that forgets the sounding note without silencing it.
stopPlaybackSilent(s, keepPending) ==
    LET b == [s EXCEPT !.playing = FALSE, !.pulses = 0, !.noteActive = FALSE,
                       !.ticksRemaining = 0,
                       !.clockPosition = 0,
                       !.eventEndTick = 0,
                       !.currentEventIndex = 0]
    IN IF keepPending THEN b ELSE [b EXCEPT !.startPending = FALSE]

\* A stopPlayback() that also forgets the sequence.
stopPlaybackUnload(s, keepPending) ==
    LET a == IF s.noteActive
             THEN [Send(s, NoteOff(s.activeNote, OutChannel(s)))
                       EXCEPT !.noteActive = FALSE, !.unmatched = @ - 1]
             ELSE s
        b == [a EXCEPT !.playing = FALSE, !.pulses = 0,
                       !.ticksRemaining = 0,
                       !.clockPosition = 0,
                       !.eventEndTick = 0,
                       !.currentEventIndex = 0,
                       !.sequenceLoaded = FALSE]
    IN IF keepPending THEN b ELSE [b EXCEPT !.startPending = FALSE]

stopPlayback(s, keepPending) ==
    LET a == IF s.noteActive
             THEN [Send(s, NoteOff(s.activeNote, OutChannel(s)))
                       EXCEPT !.noteActive = FALSE, !.unmatched = @ - 1]
             ELSE s
        b == IF Countdown
             THEN [a EXCEPT !.playing = FALSE, !.pulses = 0,
                            !.ticksRemaining = 0,
                            !.currentEventIndex = 0]
             ELSE [a EXCEPT !.playing = FALSE, !.pulses = 0,
                            !.clockPosition = 0,
                            !.eventEndTick = 0,
                            !.currentEventIndex = 0]
    IN IF keepPending THEN b ELSE [b EXCEPT !.startPending = FALSE]

startCurrentEvent(s) ==
    IF ~s.playing \/ s.currentEventIndex >= s.count
    THEN stopPlayback(s, FALSE)
    ELSE LET event == s.events[s.currentEventIndex + 1]
             a == IF Countdown
                  THEN [s EXCEPT !.ticksRemaining = event.ticks, !.pulses = 0]
                  ELSE [s EXCEPT !.eventEndTick =
                                     Wrap(s, s.clockPosition + event.ticks),
                                 !.pulses = 0]
         IN IF event.isNote
            THEN [Send(a, NoteOn(event.note, event.velocity, OutChannel(a)))
                      EXCEPT !.noteActive = TRUE,
                             !.activeNote = event.note,
                             !.activeVelocity = event.velocity,
                             !.onChannel = OutChannel(a),
                             !.unmatched = @ + 1]
            ELSE [a EXCEPT !.noteActive = FALSE]

\* A beginPlayback() that leaves the pending flag when there is nothing to
\* play.
beginPlaybackKeepPending(s) ==
    IF ~s.sequenceLoaded \/ s.count = 0
    THEN s
    ELSE startCurrentEvent([s EXCEPT !.currentEventIndex = 0,
                                     !.ticksRemaining = 0,
                                     !.clockPosition = 0,
                                     !.eventEndTick = 0,
                                     !.noteActive = FALSE,
                                     !.playing = TRUE,
                                     !.startPending = FALSE])

\* A beginPlayback() that starts the first event and stays armed.
beginPlaybackStayArmed(s) ==
    IF ~s.sequenceLoaded \/ s.count = 0
    THEN [s EXCEPT !.startPending = FALSE]
    ELSE startCurrentEvent([s EXCEPT !.currentEventIndex = 0,
                                     !.ticksRemaining = 0,
                                     !.clockPosition = 0,
                                     !.eventEndTick = 0,
                                     !.noteActive = FALSE,
                                     !.playing = TRUE])

beginPlayback(s) ==
    IF ~s.sequenceLoaded \/ s.count = 0
    THEN [s EXCEPT !.startPending = FALSE]
    ELSE LET a == IF Countdown
                  THEN [s EXCEPT !.currentEventIndex = 0,
                                 !.ticksRemaining = 0]
                  ELSE [s EXCEPT !.currentEventIndex = 0,
                                 !.clockPosition = 0,
                                 !.eventEndTick = 0]
         IN startCurrentEvent([a EXCEPT !.noteActive = FALSE,
                                        !.playing = TRUE,
                                        !.startPending = FALSE])

\* The event being finished, as the clock handler saw it: its index, the
\* pulses delivered since it was started, its stored duration and the note
\* that was sounding.
Finished(s) ==
    [ index |-> s.currentEventIndex,
      pulses |-> s.pulses,
      noteActive |-> s.noteActive,
      activeNote |-> s.activeNote,
      ticks |-> IF s.currentEventIndex < s.count
                THEN s.events[s.currentEventIndex + 1].ticks ELSE 0 ]

\* A finishCurrentEvent() that silences the note and goes on to the next
\* event, or stops after the last one.
finishCurrentEventOnce(s) ==
    LET a == IF s.noteActive
             THEN [Send(s, NoteOff(s.activeNote, OutChannel(s)))
                       EXCEPT !.noteActive = FALSE, !.unmatched = @ - 1]
             ELSE s
        b == [a EXCEPT !.currentEventIndex = @ + 1]
    IN IF b.currentEventIndex >= b.count
       THEN stopPlayback(b, FALSE)
       ELSE startCurrentEvent(b)

\* MidiMcpPlayer.ino: the sequence wraps to its first event.
finishCurrentEventLoop(s) ==
    LET a == IF s.noteActive
             THEN [Send(s, NoteOff(s.activeNote, OutChannel(s)))
                       EXCEPT !.noteActive = FALSE, !.unmatched = @ - 1]
             ELSE s
    IN IF ~a.playing THEN a
       ELSE LET next == a.currentEventIndex + 1
            IN IF next >= a.count
               THEN IF a.count = 0
                    THEN stopPlayback([a EXCEPT !.currentEventIndex = 0], FALSE)
                    ELSE startCurrentEvent([a EXCEPT !.currentEventIndex = 0])
               ELSE IF a.count > 0
                    THEN startCurrentEvent([a EXCEPT !.currentEventIndex = next])
                    ELSE stopPlayback([a EXCEPT !.currentEventIndex = next], FALSE)

\* A finishCurrentEvent() that steps over the event after the one it ends.
finishCurrentEventSkip(s) ==
    LET a == IF s.noteActive
             THEN [Send(s, NoteOff(s.activeNote, OutChannel(s)))
                       EXCEPT !.noteActive = FALSE, !.unmatched = @ - 1]
             ELSE s
        b == [a EXCEPT !.currentEventIndex = @ + 2]
    IN IF b.currentEventIndex >= b.count
       THEN stopPlayback(b, FALSE)
       ELSE startCurrentEvent(b)

\* part_000 and part_001: playback stops after the last event.
finishCurrentEventStop(s) ==
    LET a == IF s.noteActive
             THEN [Send(s, NoteOff(s.activeNote, OutChannel(s)))
                       EXCEPT !.noteActive = FALSE, !.unmatched = @ - 1]
             ELSE s
        b == [a EXCEPT !.currentEventIndex = @ + 1]
    IN IF b.currentEventIndex >= b.count
       THEN stopPlayback(b, FALSE)
       ELSE startCurrentEvent(b)

finishCurrentEvent(s) ==
    LET r == [s EXCEPT !.done = Append(@, Finished(s))]
    IN IF Looping THEN finishCurrentEventLoop(r) ELSE finishCurrentEventStop(r)

-----------------------------------------------------------------------------
(* MIDI clock and transport callbacks *)

\* while (playing && clockPosition >= eventEndTick) finishCurrentEvent();
\* fuel bounds the unrolling: a loop still running after it is reported in spin.
RECURSIVE clockLoop(_, _)
clockLoop(s, fuel) ==
    IF ~(s.playing /\ s.clockPosition >= s.eventEndTick) THEN s
    ELSE IF fuel = 0 THEN [s EXCEPT !.spin = TRUE]
    ELSE clockLoop(finishCurrentEvent(s), fuel - 1)

LoopFuel == MAX_EVENTS + 1

handleMidiClock(s) ==
    IF ~s.midiRunning THEN s
    ELSE LET a == IF s.startPending /\ ~s.playing /\ s.sequenceLoaded
                  THEN beginPlayback(s) ELSE s
         IN IF ~a.playing THEN a
            ELSE IF Countdown
            THEN IF a.ticksRemaining > 0
                 THEN LET b == [a EXCEPT !.ticksRemaining = @ - 1,
                                         !.pulses = @ + 1]
                      IN IF b.ticksRemaining = 0
                         THEN finishCurrentEvent(b) ELSE b
                 ELSE a
            ELSE clockLoop([a EXCEPT !.clockPosition = Wrap(a, @ + 1),
                                     !.pulses = @ + 1], LoopFuel)

\* A Start that sets the running flag and drops an armed playback.
handleMidiStartDisarm(s) ==
    [s EXCEPT !.midiRunning = TRUE, !.startPending = FALSE]

\* A Start that only sets the running flag.
handleMidiStartFlagOnly(s) == [s EXCEPT !.midiRunning = TRUE]

\* A Start that only sets the running flag and begins an armed playback.
handleMidiStartNoRestart(s) ==
    LET a == [s EXCEPT !.midiRunning = TRUE]
    IN IF a.startPending /\ a.sequenceLoaded THEN beginPlayback(a) ELSE a

handleMidiStart(s) ==
    LET a == IF Countdown
             THEN [s EXCEPT !.midiRunning = TRUE]
             ELSE [s EXCEPT !.midiRunning = TRUE,
                            !.clockPosition = 0,
                            !.eventEndTick = 0]
        wasPlaying == a.playing
        b == IF a.playing THEN stopPlayback(a, TRUE) ELSE a
        c == IF wasPlaying THEN [b EXCEPT !.startPending = TRUE] ELSE b
    IN IF c.startPending /\ c.sequenceLoaded THEN beginPlayback(c) ELSE c

\* A Stop that only clears the running flag.
handleMidiStopFlagOnly(s) == [s EXCEPT !.midiRunning = FALSE]

\* A Stop that stops and disarms whatever the engine is doing.
handleMidiStopDisarm(s) == stopPlayback([s EXCEPT !.midiRunning = FALSE], FALSE)

handleMidiStop(s) ==
    LET a == [s EXCEPT !.midiRunning = FALSE]
    IN IF a.playing THEN stopPlayback(a, TRUE) ELSE a

\* A Continue that only sets the running flag.
handleMidiContinueFlagOnly(s) == [s EXCEPT !.midiRunning = TRUE]

handleMidiContinue(s) ==
    LET a == IF Countdown
             THEN [s EXCEPT !.midiRunning = TRUE]
             ELSE [s EXCEPT !.midiRunning = TRUE,
                            !.clockPosition = 0,
                            !.eventEndTick = 0]
    IN IF a.startPending /\ a.sequenceLoaded THEN beginPlayback(a) ELSE a

-----------------------------------------------------------------------------
(* Buttons *)

\* A press that arms but never begins playback itself.
buttonPressedArmOnly(s) ==
    IF s.playing \/ s.startPending
    THEN stopPlayback(s, FALSE)
    ELSE IF s.sequenceLoaded
    THEN [s EXCEPT !.startPending = TRUE]
    ELSE s

\* The toggle that a debounced press of D4 performs.
buttonPressed(s) ==
    IF s.playing \/ s.startPending
    THEN stopPlayback(s, FALSE)
    ELSE IF s.sequenceLoaded
    THEN LET a == [s EXCEPT !.startPending = TRUE]
         IN IF a.midiRunning THEN beginPlayback(a) ELSE a
    ELSE s

\* reading is digitalRead(BUTTON_PIN); sinceDebounce stands for
\* millis() - lastDebounceTime.
\* A handleButton() that accepts a new level without waiting for it to
\* settle.
handleButtonNoSettle(s, reading) ==
    LET a == IF reading # s.lastButtonReading
             THEN [s EXCEPT !.sinceDebounce = 0] ELSE s
        b == IF reading # a.buttonState
             THEN LET c == [a EXCEPT !.buttonState = reading]
                  IN IF c.buttonState = LOW THEN buttonPressed(c) ELSE c
             ELSE a
    IN [b EXCEPT !.lastButtonReading = reading]

handleButton(s, reading) ==
    LET a == IF reading # s.lastButtonReading
             THEN [s EXCEPT !.sinceDebounce = 0] ELSE s
        b == IF a.sinceDebounce > debounceDelay /\ reading # a.buttonState
             THEN LET c == [a EXCEPT !.buttonState = reading]
                  IN IF c.buttonState = LOW THEN buttonPressed(c) ELSE c
             ELSE a
    IN [b EXCEPT !.lastButtonReading = reading]

handleTriggerButton(s, reading) ==
    LET a == IF reading # s.lastTriggerButtonReading
             THEN [s EXCEPT !.sinceTriggerDebounce = 0] ELSE s
        b == IF a.sinceTriggerDebounce > debounceDelay
                /\ reading # a.triggerButtonState
             THEN LET c == [a EXCEPT !.triggerButtonState = reading]
                  IN IF c.triggerButtonState = LOW
                     THEN Send(c, NoteOn(TRIGGER_NOTE, TRIGGER_VELOCITY,
                                         OutChannel(c)))
                     ELSE Send(c, NoteOff(TRIGGER_NOTE, OutChannel(c)))
             ELSE a
    IN [b EXCEPT !.lastTriggerButtonReading = reading]

\* millis() advances by dt between two polls; the differences the debounce
\* tests read saturate just above debounceDelay, where they stop mattering.
Saturate(t) == IF t > debounceDelay THEN debounceDelay + 1 ELSE t

millisAdvance(s, dt) ==
    [s EXCEPT !.sinceDebounce = Saturate(@ + dt),
              !.sinceTriggerDebounce =
                  IF HasTrigger THEN Saturate(@ + dt) ELSE @]

-----------------------------------------------------------------------------
(* Load requests *)

\* ArduinoJson's as<T>(): a value that does not fit T reads as 0.  The raw
\* values of the model stay far below 2^32, so as<uint32_t>() only maps
\* negatives to 0.
AsUint8(x) == IF x < 0 \/ x > 255 THEN 0 ELSE x
AsUint16(x) == IF x < 0 \/ x > 65535 THEN 0 ELSE x
AsUint32(x) == IF x < 0 THEN 0 ELSE x

RECURSIVE gcd32(_, _)
gcd32(a, b) == IF b = 0 THEN a ELSE gcd32(b, a % b)

\* A channel check that keeps whatever fits a uint8_t.
RequestChannelUnchecked(req) ==
    IF req.channel < 0 \/ req.channel > 255 THEN 0 ELSE req.channel

\* channel < 1 || channel > 16 -> DEFAULT_MIDI_CHANNEL
RequestChannel(req) ==
    LET channel == AsUint8(req.channel)
    IN IF channel < 1 \/ channel > 16 THEN DEFAULT_MIDI_CHANNEL ELSE channel

\* A velocity check that clamps to the nearest valid value.
VelocityClamped(item) ==
    IF item.velocity < 1 THEN 1
    ELSE IF item.velocity > 127 THEN 127 ELSE item.velocity

Velocity(item) ==
    IF item.velocity < 1 \/ item.velocity > 127
    THEN DefaultVelocity ELSE item.velocity

Rejected(s, code) == [s |-> s, err |-> code]
\* The answer to an accepted load reports the loader's count and channel.
Accepted(s, count, channel) ==
    [s |-> s, err |-> "ok", eventsLoaded |-> count, channel |-> channel]

\* A commit that publishes the new sequence and leaves the engine running.
commitLoadKeepPlaying(s, count, channel) ==
    [s EXCEPT !.count = count,
              !.channel = channel,
              !.sequenceLoaded = (count > 0),
              !.startPending = FALSE]

\* The tail every loader shares: publish count and channel, disarm, and stop a
\* running playback.
commitLoad(s, count, channel) ==
    LET a == [s EXCEPT !.count = count,
                       !.channel = channel,
                       !.sequenceLoaded = (count > 0),
                       !.startPending = FALSE]
    IN IF a.playing THEN stopPlayback(a, FALSE) ELSE a

\* MidiMcpPlayer.ino, the loop over the request's items: events are parsed
\* into tempEvents and rawTicks, the stored sequence is not touched.
RECURSIVE parseItems(_, _)
parseItems(items, acc) ==
    IF items = <<>> \/ acc.err # "ok" THEN acc
    ELSE LET obj == Head(items)
             ticks == AsUint32(obj.ticks)
             gcdTicks == IF acc.gcdTicks = 0 THEN ticks
                         ELSE gcd32(acc.gcdTicks, ticks)
             step(event) == [acc EXCEPT !.temp = Append(@, event),
                                        !.raw = Append(@, ticks),
                                        !.gcdTicks = gcdTicks]
             next ==
                IF Len(acc.temp) >= MAX_EVENTS
                THEN [acc EXCEPT !.err = "sequence_too_long"]
                ELSE IF ticks = 0
                THEN [acc EXCEPT !.err = "ticks_must_be_positive"]
                ELSE IF obj.type = "note"
                THEN IF obj.note < 0 \/ obj.note > 127
                     THEN [acc EXCEPT !.err = "note_out_of_range"]
                     ELSE step([isNote |-> TRUE, note |-> obj.note,
                                velocity |-> Velocity(obj), ticks |-> 0])
                ELSE IF obj.type = "rest"
                THEN step([isNote |-> FALSE, note |-> 0,
                           velocity |-> 0, ticks |-> 0])
                ELSE [acc EXCEPT !.err = "invalid_event_type"]
         IN parseItems(Tail(items), next)

\* A uint32_t in two 16-bit halves: the value is hi * 2^16 + lo.
Uint32(hi, lo) == [hi |-> hi, lo |-> lo]

\* static_cast<uint32_t>((uint64_t(ticks) * 24 + bias) / requested) for
\* bias < requested.  With ticks = q * requested + rest the 64-bit quotient is
\* 24 * q + (24 * rest + bias) / requested; it is computed in 16-bit halves
\* and the cast keeps the two lowest.
scaledTo32(ticks, requested, bias) ==
    LET q == ticks \div requested
        rest == ticks % requested
        low == (q % 65536) * AppliedTicksPerQuarter
                 + (rest * AppliedTicksPerQuarter + bias) \div requested
        high == (q \div 65536) * AppliedTicksPerQuarter + low \div 65536
    IN Uint32(high % 65536, low % 65536)

\* An explicit scaling that truncates instead of rounding.
scaleExplicitFloor(ticks, requested) ==
    LET scaled == scaledTo32(ticks, requested, 0)
    IN IF scaled = Uint32(0, 0) THEN Uint32(0, 1) ELSE scaled

\* An explicit scaling that keeps a result of 0.
scaleExplicitKeepZero(ticks, requested) ==
    scaledTo32(ticks, requested, requested \div 2)

\* round(ticks * 24 / requested) as a uint32_t, with 0 replaced by 1.
scaleExplicit(ticks, requested) ==
    LET scaled == scaledTo32(ticks, requested, requested \div 2)
    IN IF scaled = Uint32(0, 0) THEN Uint32(0, 1) ELSE scaled

\* An implicit scaling that leaves the raw value.
scaleImplicitKeep(ticks, scaleFactor) == ticks

scaleImplicit(ticks, scaleFactor) ==
    LET scaled == ticks \div scaleFactor
    IN IF scaled = 0 THEN 1 ELSE scaled

\* A loader that takes a GCD of 24 for data at 48 ticks per quarter.
autoScaleFactorTwice(gcdTicks) ==
    IF gcdTicks >= AppliedTicksPerQuarter
       /\ gcdTicks % AppliedTicksPerQuarter = 0
    THEN 2 * (gcdTicks \div AppliedTicksPerQuarter) ELSE 1

\* A loader that divides by GCD / 24 whether or not 24 divides the GCD.
autoScaleFactorAnyGcd(gcdTicks) ==
    IF gcdTicks >= AppliedTicksPerQuarter
    THEN gcdTicks \div AppliedTicksPerQuarter ELSE 1

autoScaleFactor(gcdTicks) ==
    IF gcdTicks >= AppliedTicksPerQuarter
       /\ gcdTicks % AppliedTicksPerQuarter = 0
    THEN gcdTicks \div AppliedTicksPerQuarter ELSE 1

WithTicks(temp, ticks) ==
    [i \in 1..Len(temp) |-> [temp[i] EXCEPT !.ticks = ticks[i]]]

\* MidiMcpPlayer.ino: POST /sequence
handleSequencePost(s, req) ==
    IF Len(req.events) = 0 THEN Rejected(s, "sequence_required")
    ELSE
    LET channel == RequestChannel(req)
        ticksPerQuarterProvided == AsUint32(req.ticksPerQuarter) > 0
        requested == IF ticksPerQuarterProvided
                     THEN AsUint32(req.ticksPerQuarter) ELSE 24
        parsed == parseItems(req.events,
                     [err |-> "ok", temp |-> <<>>, raw |-> <<>>, gcdTicks |-> 0])
        count == Len(parsed.temp)
        \* sequence.autoScaledTicks = false, before the durations are checked
        a == [s EXCEPT !.autoScaledTicks = FALSE]
        scaleFactor == IF ticksPerQuarterProvided THEN 1
                       ELSE autoScaleFactor(parsed.gcdTicks)
        explicit == [i \in 1..count |-> scaleExplicit(parsed.raw[i], requested)]
        scaled == [i \in 1..count |->
                     IF ticksPerQuarterProvided
                     THEN explicit[i].lo       \* static_cast<uint16_t>(scaled)
                     ELSE IF scaleFactor > 1
                     THEN scaleImplicit(parsed.raw[i], scaleFactor)
                     ELSE parsed.raw[i]]
        \* scaled > 65535
        tooLarge == \E i \in 1..count :
                        IF ticksPerQuarterProvided
                        THEN explicit[i].hi > 0
                        ELSE scaled[i] > MaxTicks
        computedSource == scaleFactor * AppliedTicksPerQuarter
        sourceTicksPerQuarter ==
            IF ticksPerQuarterProvided
            THEN (IF requested > 65535 THEN 65535 ELSE requested)
            ELSE IF scaleFactor > 1
            THEN (IF computedSource > 65535 THEN 65535 ELSE computedSource)
            ELSE AppliedTicksPerQuarter
        b == [a EXCEPT !.autoScaledTicks =
                           (~ticksPerQuarterProvided /\ scaleFactor > 1),
                       !.events = WithTicks(parsed.temp, scaled),
                       !.sourceTicksPerQuarter = sourceTicksPerQuarter,
                       !.appliedTicksPerQuarter = AppliedTicksPerQuarter,
                       !.ticksPerQuarterProvided = ticksPerQuarterProvided]
    IN IF ticksPerQuarterProvided /\ requested > 65535
       THEN Rejected(s, "ticks_per_quarter_out_of_range")
       ELSE IF parsed.err # "ok" THEN Rejected(s, parsed.err)
       ELSE IF tooLarge
       THEN Rejected(a, IF ticksPerQuarterProvided
                        THEN "ticks_after_scaling_out_of_range"
                        ELSE "ticks_too_large")
       ELSE Accepted(commitLoad(b, count, channel), count, channel)

\* part_000 and part_001: every item is written into sequence.events[count]
\* as it is read.  arr is the array, n the number of items read so far.
StoreAt(arr, i, event) ==
    IF i <= Len(arr) THEN [arr EXCEPT ![i] = event] ELSE Append(arr, event)

ZeroEvent == [isNote |-> FALSE, note |-> 0, velocity |-> 0, ticks |-> 0]

SlotAt(arr, i) == IF i <= Len(arr) THEN arr[i] ELSE ZeroEvent

RECURSIVE storeItems(_, _)
storeItems(items, acc) ==
    IF items = <<>> \/ acc.err # "ok" THEN acc
    ELSE LET obj == Head(items)
             ticks == AsUint16(obj.ticks)
             i == acc.n + 1
             timed == StoreAt(acc.arr, i,
                              [SlotAt(acc.arr, i) EXCEPT !.ticks = ticks])
             next ==
                IF acc.n >= MAX_EVENTS
                THEN [acc EXCEPT !.err = "sequence_too_long"]
                ELSE IF ticks = 0
                THEN [acc EXCEPT !.err = "ticks_must_be_positive"]
                ELSE IF obj.type = "note"
                THEN IF obj.note < 0 \/ obj.note > 127
                     THEN [acc EXCEPT !.arr = timed,
                                      !.err = "note_out_of_range"]
                     ELSE [acc EXCEPT
                             !.arr = StoreAt(acc.arr, i,
                                 [isNote |-> TRUE, note |-> obj.note,
                                  velocity |-> Velocity(obj), ticks |-> ticks]),
                             !.n = i]
                ELSE IF obj.type = "rest"
                THEN [acc EXCEPT
                        !.arr = StoreAt(acc.arr, i,
                            [isNote |-> FALSE, note |-> 0,
                             velocity |-> 0, ticks |-> ticks]),
                        !.n = i]
                ELSE [acc EXCEPT !.arr = timed, !.err = "invalid_event_type"]
         IN storeItems(Tail(items), next)

\* The slots below count are the ones the engine can read.
Visible(arr, count) == SubSeq(arr, 1, IF count < Len(arr) THEN count ELSE Len(arr))

loadInPlace(s, req) ==
    LET stored == storeItems(req.events,
                             [err |-> "ok", arr |-> s.events, n |-> 0])
    IN IF stored.err # "ok"
       THEN Rejected([s EXCEPT !.events = Visible(stored.arr, s.count)],
                     stored.err)
       ELSE Accepted(commitLoad([s EXCEPT !.events = Visible(stored.arr, stored.n)],
                                stored.n, RequestChannel(req)),
                     stored.n, RequestChannel(req))

\* part_000: POST /sequence
handleSequencePostInPlace(s, req) ==
    IF Len(req.events) = 0 THEN Rejected(s, "sequence_required")
    ELSE loadInPlace(s, req)

\* part_001: tools/call load_sequence; an empty array is read as a sequence
\* of no events.
handleMcpRequest(s, req) == loadInPlace(s, req)

loadSequence(s, req) ==
    IF sketch = "MidiMcpPlayer" THEN handleSequencePost(s, req)
    ELSE IF sketch = "Rest" THEN handleSequencePostInPlace(s, req)
    ELSE handleMcpRequest(s, req)

\* GET /status
handleStatusRequest(s) ==
    [ sequenceLoaded |-> s.sequenceLoaded,
      eventCount |-> s.count,
      channel |-> OutChannel(s),
      playing |-> s.playing,
      startPending |-> s.startPending,
      midiClockRunning |-> s.midiRunning ]

-----------------------------------------------------------------------------
(* Inputs *)

Item(type, note, velocity, ticks) ==
    [type |-> type, note |-> note, velocity |-> velocity, ticks |-> ticks]

C4 == Item("note", 60, 96, 2)        \* velocity given, two ticks
D4 == Item("note", 62, 0, 1)         \* velocity omitted, one tick
Rest1 == Item("rest", 0, 0, 1)
Rest48 == Item("rest", 0, 0, 48)     \* a quarter note at 48 PPQN

\* channel 0 stands for an absent channel, ticksPerQuarter 0 for an absent
\* resolution.
Request(channel, ticksPerQuarter, events) ==
    [channel |-> channel, ticksPerQuarter |-> ticksPerQuarter,
     events |-> events]

GoodRequests ==
    { Request(0, 0, <<D4>>), Request(2, 0, <<D4>>),
      Request(0, 48, <<C4, D4>>),
      Request(0, 0, <<Rest1, C4>>), Request(0, 0, <<Rest48>>) }

\* One request for each way of being refused.  The empty list is a sequence
\* of no events for part_001.
BadRequests ==
    { Request(0, 0, <<>>),
      Request(0, 0, <<Rest1, Item("drum", 0, 0, 1)>>),
      Request(0, 0, <<Item("note", 128, 96, 1)>>),
      Request(0, 0, <<Item("rest", 0, 0, 0)>>),
      Request(0, 0, <<Item("rest", 0, 0, 65536)>>),
      Request(2, 48, <<C4, Item("rest", 0, 0, 200000)>>) }

\* With a receiver attached the requests are the two that differ in nothing
\* but the channel, and one that is refused.
MonitorRequests ==
    { Request(0, 0, <<D4>>), Request(2, 0, <<D4>>),
      Request(0, 0, <<Item("rest", 0, 0, 0)>>) }

Requests == IF monitor THEN MonitorRequests ELSE GoodRequests \cup BadRequests

TimeSteps == {debounceDelay + 1}

\* Requests for the study of the loaders alone.
Rests(ticks) == [i \in 1..Len(ticks) |-> Item("rest", 0, 0, ticks[i])]

Repeat(item, n) == [i \in 1..n |-> item]

NoRequest == Request(0, 0, <<>>)

ImplicitRequests ==
    { Request(0, 0, Rests(ticks)) :
        ticks \in { <<48, 24, 96>>, <<24, 12, 36>>, <<96, 48>>, <<72, 120>>,
                    <<12>>, <<98304>>, <<98304, 24>>, <<48, 131088>>,
                    <<70000>> } }

ExplicitRequests ==
    { Request(0, 48, Rests(<<24>>)), Request(0, 48, Rests(<<5, 24>>)),
      Request(0, 48, Rests(<<1>>)), Request(0, 100, Rests(<<1>>)),
      Request(0, 96, Rests(<<2, 6>>)), Request(0, 16, Rests(<<1, 3>>)),
      Request(0, 7, Rests(<<3>>)), Request(0, 65535, Rests(<<1>>)),
      Request(0, 1, Rests(<<65535>>)), Request(0, 1, Rests(<<2731>>)),
      Request(0, 1, Rests(<<178956971>>)),
      Request(0, 65536, Rests(<<24>>)) }

LengthRequests ==
    { Request(0, 0, <<>>),
      Request(0, 0, Repeat(Rest1, MAX_EVENTS)),
      Request(0, 0, Repeat(Rest1, MAX_EVENTS + 1)),
      Request(0, 0, Repeat(Item("rest", 0, 0, 0), MAX_EVENTS + 1)),
      Request(0, 0, <<C4, Item("drum", 0, 0, 3)>>),
      Request(0, 0, <<Item("note", 128, 0, 7)>>) }

\* Channels in and out of 1..16; 256 does not fit a uint8_t.
ChannelRequests ==
    { Request(channel, 0, <<D4>>) : channel \in {1, 5, 16, 17, 200, 256} }

\* Items that are wrong in more than one way, after a valid one or first, and
\* velocities in and out of 1..127.
ItemRequests ==
    { Request(0, 0, <<Item("drum", 128, 0, 0)>>),
      Request(0, 0, <<Rest1, Item("note", 128, 0, -1)>>),
      Request(0, 0, <<Item("drum", 128, 0, 2), Item("rest", 0, 0, 0)>>),
      Request(0, 0, <<Item("note", -1, 0, 2), Item("drum", 0, 0, 1)>>),
      Request(0, 0, <<Item("note", 0, 1, 1), Item("note", 127, 127, 1),
                      Item("note", 60, 128, 1), Item("note", 61, -5, 1),
                      Item("note", 62, 200, 1)>>) }

LoadRequests ==
    ImplicitRequests \cup ExplicitRequests \cup LengthRequests
        \cup ChannelRequests \cup ItemRequests

-----------------------------------------------------------------------------
(* The state machine: loop() runs the handlers one at a time *)

Init ==
    /\ sketch \in Sketches
    /\ st = InitState
    /\ lastOp = [op |-> "setup", arg |-> ""]
    /\ monitor = FALSE
    /\ sounding = {}
    /\ posted = NoRequest
    /\ twin = InitState

\* One handler has run from st to completion, leaving next.
Ran(op, arg, next) ==
    /\ st' = next
    /\ lastOp' = [op |-> op, arg |-> arg]
    /\ sounding' = IF monitor THEN Receive(sounding, next.out) ELSE sounding
    /\ UNCHANGED <<sketch, monitor, posted, twin>>

Button ==
    \E reading \in {LOW, HIGH} :
        Ran("button", "", handleButton(Enter(st), reading))

TriggerButton ==
    /\ HasTrigger
    /\ \E reading \in {LOW, HIGH} :
        Ran("trigger", "", handleTriggerButton(Enter(st), reading))

TimePasses ==
    \E dt \in TimeSteps :
        /\ \/ st.sinceDebounce <= debounceDelay
           \/ HasTrigger /\ st.sinceTriggerDebounce <= debounceDelay
        /\ Ran("millis", "", millisAdvance(Enter(st), dt))

MidiClock ==
    /\ st.clockPosition < MaxClock
    /\ Ran("clock", "", handleMidiClock(Enter(st)))

MidiStart == Ran("start", "", handleMidiStart(Enter(st)))

MidiStop ==
    Ran("stop", IF st.playing THEN "stopped" ELSE "", handleMidiStop(Enter(st)))

MidiContinue == Ran("continue", "", handleMidiContinue(Enter(st)))

Load ==
    \E req \in Requests :
        LET r == loadSequence(Enter(st), req)
        IN Ran("load", r.err, r.s)

Next ==
    \/ Button
    \/ TriggerButton
    \/ TimePasses
    \/ MidiClock
    \/ MidiStart
    \/ MidiStop
    \/ MidiContinue
    \/ Load

Spec == Init /\ [][Next]_vars

\* The same machine with a receiver listening on the MIDI output.
InitMonitor ==
    /\ sketch \in Sketches
    /\ st = InitState
    /\ lastOp = [op |-> "setup", arg |-> ""]
    /\ monitor = TRUE
    /\ sounding = {}
    /\ posted = NoRequest
    /\ twin = InitState

SpecMonitor == InitMonitor /\ [][Next]_vars

\* The loaders alone: one request after another, each kept with its answer.
Post ==
    \E req \in LoadRequests :
        LET r == loadSequence(Enter(st), req)
        IN /\ st' = r.s
           /\ lastOp' = [op |-> "load", arg |-> r.err]
           /\ posted' = req
           /\ UNCHANGED <<sketch, monitor, sounding, twin>>

NextLoad == Post

SpecLoad == Init /\ [][NextLoad]_vars

\* The debounce of D4 alone: polls of the pin a short time apart, around a
\* loaded sequence and a transport that starts and stops.
Millis ==
    /\ st.sinceDebounce <= debounceDelay
    /\ Ran("millis", "", millisAdvance(Enter(st), MillisStep))

LoadOne ==
    LET r == loadSequence(Enter(st), Request(0, 0, <<D4>>))
    IN Ran("load", r.err, r.s)

NextDebounce ==
    \/ Button
    \/ Millis
    \/ LoadOne
    \/ MidiStart
    \/ MidiStop

SpecDebounce == Init /\ [][NextDebounce]_vars

\* The countdown engine of part_001 left alone with the clock: while a
\* sequence plays only pulses arrive, and they keep arriving.
InitCountdown ==
    /\ sketch = "Mcp"
    /\ st = InitState
    /\ lastOp = [op |-> "setup", arg |-> ""]
    /\ monitor = FALSE
    /\ sounding = {}
    /\ posted = NoRequest
    /\ twin = InitState

Pulse ==
    /\ st.playing
    /\ Ran("pulse", "", handleMidiClock(Enter(st)))

NextCountdown ==
    \/ Pulse
    \/ ~st.playing /\ Button
    \/ ~st.playing /\ TimePasses
    \/ ~st.playing /\ MidiClock
    \/ ~st.playing /\ MidiStart
    \/ ~st.playing /\ MidiStop
    \/ ~st.playing /\ MidiContinue
    \/ ~st.playing /\ Load

SpecCountdown == InitCountdown /\ [][NextCountdown]_vars /\ WF_vars(Pulse)

\* The two engines that compare tick positions, built with narrow counters
\* and played short sequences for as long as the clock runs.  A clock handler
\* that does not return leaves the device in its loop.
ShortRequests == { Request(0, 0, <<D4>>), Request(0, 0, <<Rest1, C4>>) }

InitWrap ==
    /\ sketch \in {"MidiMcpPlayer", "Rest"}
    /\ st = [InitState EXCEPT !.counterBits = NarrowBits]
    /\ lastOp = [op |-> "setup", arg |-> ""]
    /\ monitor = FALSE
    /\ sounding = {}
    /\ posted = NoRequest
    /\ twin = InitState

ClockPulse == Ran("clock", "", handleMidiClock(Enter(st)))

LoadShort ==
    \E req \in ShortRequests :
        LET r == loadSequence(Enter(st), req)
        IN Ran("load", r.err, r.s)

NextWrap ==
    \/ ~st.spin /\ ClockPulse
    \/ ~st.spin /\ Button
    \/ ~st.spin /\ TimePasses
    \/ ~st.spin /\ MidiStart
    \/ ~st.spin /\ MidiStop
    \/ ~st.spin /\ MidiContinue
    \/ ~st.spin /\ LoadShort

SpecWrap == InitWrap /\ [][NextWrap]_vars

\* Two boards side by side, part_000 (absolute tick positions) and part_001
\* (countdown), given the same loads and the same events one after the other:
\* st is the board of the revision named by sketch, twin is the other board.
\* An event goes to the part_000 board first, then to the part_001 board.
InitTwin ==
    /\ sketch = "Rest"
    /\ st = InitState
    /\ lastOp = [op |-> "setup", arg |-> ""]
    /\ monitor = FALSE
    /\ sounding = {}
    /\ posted = NoRequest
    /\ twin = InitState

Deliver(op, s, req) ==
    CASE op = "clock" -> handleMidiClock(s)
      [] op = "start" -> handleMidiStart(s)
      [] op = "stop" -> handleMidiStop(s)
      [] op = "continue" -> handleMidiContinue(s)
      [] op = "press" -> buttonPressed(s)
      [] op = "load" -> loadSequence(s, req).s

ToFirst(op, req) ==
    /\ sketch = "Rest"
    /\ lastOp.arg # "one"
    /\ twin' = Deliver(op, Enter(st), req)
    /\ st' = twin
    /\ sketch' = "Mcp"
    /\ lastOp' = [op |-> op, arg |-> "one"]
    /\ posted' = req
    /\ UNCHANGED <<monitor, sounding>>

ToSecond ==
    /\ sketch = "Mcp"
    /\ lastOp.arg = "one"
    /\ twin' = Deliver(lastOp.op, Enter(st), posted)
    /\ st' = twin
    /\ sketch' = "Rest"
    /\ lastOp' = [lastOp EXCEPT !.arg = "both"]
    /\ UNCHANGED <<monitor, sounding, posted>>

NextTwin ==
    \/ ToFirst("clock", posted)
    \/ ToFirst("start", posted)
    \/ ToFirst("stop", posted)
    \/ ToFirst("continue", posted)
    \/ ToFirst("press", posted)
    \/ \E req \in ShortRequests : ToFirst("load", req)
    \/ ToSecond

SpecTwin == InitTwin /\ [][NextTwin]_vars

-----------------------------------------------------------------------------
(* Properties *)

\* The globals of the sketch, without what the last handler sent or finished.
Globals(s) == [s EXCEPT !.out = <<>>, !.done = <<>>, !.spin = FALSE]

\* The cursor as stopPlayback() leaves it.
CursorReset(s) ==
    /\ s.currentEventIndex = 0
    /\ s.clockPosition = 0
    /\ s.eventEndTick = 0
    /\ s.ticksRemaining = 0

LoadedOk == lastOp.op = "load" /\ lastOp.arg = "ok"

\* The first event is started at tick position 0.
FirstEventStarted(s) ==
    /\ s.playing
    /\ s.currentEventIndex = 0
    /\ s.pulses = 0
    /\ s.noteActive = s.events[1].isNote
    /\ IF Countdown THEN s.ticksRemaining = s.events[1].ticks
       ELSE /\ s.clockPosition = 0
            /\ s.eventEndTick = s.events[1].ticks

\* What starting event e sends.
StartOf(e, channel) ==
    IF e.isNote THEN <<NoteOn(e.note, e.velocity, channel)>> ELSE <<>>

\* C1: whenever playing is false, every Note On sent for a sequence note has
\* been answered by a Note Off (as many Note Offs as Note Ons) and no sequence
\* note is marked as sounding; while playing, at most the current note is
\* unanswered.
C1_NoStuckNotes ==
    /\ st.unmatched = (IF st.noteActive THEN 1 ELSE 0)
    /\ ~st.playing => (st.unmatched = 0 /\ ~st.noteActive)

\* MIDI Stop arrived while a note was sounding and sent its Note Off.
C1_Witness ==
    /\ lastOp = [op |-> "stop", arg |-> "stopped"]
    /\ ~st.playing
    /\ Len(st.out) = 1
    /\ st.out[1].type = "off"
    /\ st.unmatched = 0

\* C2: a successful load that arrives while a sequence note is sounding sends
\* the Note Off for that note on the channel its Note On was sent on.
C2_NoteOffOnNoteOnChannel ==
    [][ (lastOp'.op = "load" /\ lastOp'.arg = "ok" /\ st.noteActive)
            => st'.out = <<NoteOff(st.activeNote, st.onChannel)>> ]_vars

\* C3: a load that is refused leaves the stored sequence, its metadata and the
\* playback state as they were.
C3_RejectedLoadChangesNothing ==
    [][ (lastOp'.op = "load" /\ lastOp'.arg # "ok")
            => Globals(st') = Globals(st) ]_vars

\* C4: a Start or Continue that follows a MIDI Stop received while playing
\* begins playback again from index 0, with no button press in between.
C4_StopKeepsIntent ==
    [][ (lastOp = [op |-> "stop", arg |-> "stopped"]
           /\ lastOp'.op \in {"start", "continue"})
            => (st'.playing /\ st'.currentEventIndex = 0) ]_vars

\* C5: MIDI Start while playing sends the Note Off of the sounding note (if
\* any), then leaves the engine playing at index 0, tick position 0, with the
\* first event started.
C5_StartRestarts ==
    [][ (lastOp'.op = "start" /\ st.playing)
            => /\ FirstEventStarted(st')
               /\ st'.midiRunning
               /\ ~st'.startPending
               /\ st'.out =
                     (IF st.noteActive
                      THEN <<NoteOff(st.activeNote, OutChannel(st))>> ELSE <<>>)
                     \o StartOf(st.events[1], OutChannel(st)) ]_vars

\* Start arrived while the second event of <<rest, C4>> was sounding: the
\* note was silenced and the rest at index 0 started.
C5_Witness ==
    /\ lastOp.op = "start"
    /\ st.playing
    /\ st.currentEventIndex = 0
    /\ ~st.noteActive
    /\ st.out = <<NoteOff(60, DEFAULT_MIDI_CHANNEL)>>

\* C6 as stated: from every reachable state Continue leaves the same state
\* and sends the same messages as Start.
C6_ContinueIsStart ==
    handleMidiContinue(Enter(st)) = handleMidiStart(Enter(st))

\* C6: from every reachable state in which nothing is playing, Continue leaves
\* the same state and sends the same messages as Start; while playing,
\* Continue sends nothing and leaves the engine playing the same event.
C6_ContinueIsStartWhenIdle ==
    LET c == handleMidiContinue(Enter(st))
    IN IF ~st.playing
       THEN c = handleMidiStart(Enter(st))
       ELSE /\ c.playing
            /\ c.currentEventIndex = st.currentEventIndex
            /\ c.noteActive = st.noteActive
            /\ c.out = <<>>

\* Continue found the engine armed and began playback with a Note On.
C6_Witness ==
    /\ lastOp.op = "continue"
    /\ st.playing
    /\ st.currentEventIndex = 0
    /\ Len(st.out) = 1
    /\ st.out[1].type = "on"

\* C7: every event the clock handler finishes had received exactly as many
\* pulses since it was started as its stored duration.
C7_EventLastsItsTicks ==
    \A i \in 1..Len(st.done) : st.done[i].pulses = st.done[i].ticks

\* The last handler was a clock pulse that completed the last event.
CompletedLast ==
    /\ lastOp.op = "clock"
    /\ st.done # <<>>
    /\ st.done[Len(st.done)].index = st.count - 1

\* The Note Off the clock handler owes to the event it finished.
FinalNoteOff ==
    LET f == st.done[Len(st.done)]
    IN IF f.noteActive THEN <<NoteOff(f.activeNote, OutChannel(st))>> ELSE <<>>

\* C8 as stated: the pulse that completes the last event sends the final Note
\* Off, leaves the engine idle with the cursor reset, and starts no event.
C8_LastEventStops ==
    CompletedLast =>
        /\ ~st.playing
        /\ ~st.noteActive
        /\ CursorReset(st)
        /\ st.out = FinalNoteOff

\* C8: the pulse that completes the last event sends the final Note Off; in
\* part_000 and part_001 it leaves the engine idle with the cursor reset and
\* starts no event, in MidiMcpPlayer.ino it starts the first event again and
\* the engine stays playing.
C8_LastEventStopsOrLoops ==
    CompletedLast =>
        IF Looping
        THEN /\ st.playing
             /\ st.currentEventIndex = 0
             /\ st.pulses = 0
             /\ st.noteActive = st.events[1].isNote
             /\ st.eventEndTick = st.clockPosition + st.events[1].ticks
             /\ st.out = FinalNoteOff \o StartOf(st.events[1], OutChannel(st))
        ELSE /\ ~st.playing
             /\ ~st.noteActive
             /\ CursorReset(st)
             /\ st.out = FinalNoteOff

\* The looping sketch finished the last note of a sequence and started the
\* first event again.
C8_Witness ==
    /\ Looping
    /\ CompletedLast
    /\ st.done[1].noteActive
    /\ st.playing
    /\ st.currentEventIndex = 0

\* C9, for the sketches whose only notes are sequence notes: a receiver never
\* hears more than one note at a time, and hears none when nothing is playing
\* (after a stop or a successful load).
C9_Monophony ==
    ~HasTrigger =>
        /\ Cardinality(sounding) <= 1
        /\ ~st.playing => sounding = {}

\* C10: after a successful load the engine is idle with the cursor reset, a
\* status query reports playing false with the new count, and the load sent
\* exactly one Note Off, for the sounding note, if a note was sounding and
\* nothing otherwise.
C10_LoadLeavesIdle ==
    [][ (lastOp'.op = "load" /\ lastOp'.arg = "ok")
            => /\ ~st'.playing
               /\ ~st'.startPending
               /\ ~st'.noteActive
               /\ CursorReset(st')
               /\ ~handleStatusRequest(st').playing
               /\ handleStatusRequest(st').eventCount = Len(st'.events)
               /\ IF st.noteActive
                  THEN /\ Len(st'.out) = 1
                       /\ st'.out[1].type = "off"
                       /\ st'.out[1].note = st.activeNote
                  ELSE st'.out = <<>> ]_vars

\* A load replaced the sequence while a note was sounding.
C10_Witness ==
    /\ LoadedOk
    /\ st.count > 0
    /\ Len(st.out) = 1
    /\ st.out[1].type = "off"

\* A debounced press of D4 happened in this step.
PressStep ==
    /\ lastOp'.op = "button"
    /\ st.buttonState = HIGH
    /\ st'.buttonState = LOW

\* The globals without the debounce bookkeeping of D4.
SansButton(s) ==
    [Globals(s) EXCEPT !.buttonState = HIGH, !.lastButtonReading = HIGH,
                       !.sinceDebounce = 0]

\* C11: after a successful load playback is armed (startPending is true).
C11_LoadArms == LoadedOk => st.startPending

C13_ButtonToggles ==
    [][ PressStep =>
          IF st.playing \/ st.startPending
          THEN /\ ~st'.playing
               /\ ~st'.startPending
               /\ ~st'.noteActive
               /\ CursorReset(st')
               /\ st'.out = (IF st.noteActive
                             THEN <<NoteOff(st.activeNote, OutChannel(st))>>
                             ELSE <<>>)
          ELSE IF st.sequenceLoaded
          THEN IF st.midiRunning
               THEN /\ FirstEventStarted(st')
                    /\ ~st'.startPending
                    /\ st'.out = StartOf(st.events[1], OutChannel(st))
               ELSE /\ SansButton(st') = [SansButton(st) EXCEPT
                                             !.startPending = TRUE]
                    /\ st'.out = <<>>
          ELSE /\ SansButton(st') = SansButton(st)
               /\ st'.out = <<>> ]_vars

\* A press of D4 under a running transport began playback with a Note On.
C13_Witness ==
    /\ lastOp.op = "button"
    /\ st.buttonState = LOW
    /\ st.playing
    /\ Len(st.out) = 1
    /\ st.out[1].type = "on"

\* C14 as stated: a MIDI Stop with nothing playing changes no state and sends
\* nothing.
C14_StopWhenIdleIsNoOp ==
    ~st.playing => handleMidiStop(Enter(st)) = Enter(st)

\* C14: a MIDI Stop with nothing playing sends nothing and changes nothing
\* but the running flag, which it clears; a second Stop changes nothing more.
C14_StopWhenIdleClearsRunning ==
    ~st.playing =>
        LET once == handleMidiStop(Enter(st))
        IN /\ once = [Enter(st) EXCEPT !.midiRunning = FALSE]
           /\ handleMidiStop(Enter(once)) = once

\* A MIDI Stop arrived while the engine was armed and not playing.
C14_Witness ==
    /\ lastOp = [op |-> "stop", arg |-> ""]
    /\ st.startPending
    /\ ~st.playing
    /\ ~st.midiRunning

-----------------------------------------------------------------------------
(* Properties of the loaders *)

\* The stored durations.
Ticks(s) == [i \in 1..s.count |-> s.events[i].ticks]

\* The durations as posted.
RawTicks(req) == [i \in 1..Len(req.events) |-> req.events[i].ticks]

\* A request that passes every check on the list and its items.
WellFormed(req) ==
    /\ Len(req.events) \in 1..MAX_EVENTS
    /\ \A i \in 1..Len(req.events) :
          /\ req.events[i].ticks > 0
          /\ \/ req.events[i].type = "rest"
             \/ req.events[i].type = "note" /\ req.events[i].note \in 0..127

Answered(code) == lastOp = [op |-> "load", arg |-> code]

\* The greatest common divisor of the values of a non-empty sequence.
Smallest(seq) ==
    CHOOSE x \in {seq[i] : i \in 1..Len(seq)} :
        \A i \in 1..Len(seq) : x <= seq[i]

CommonDivisors(seq) ==
    {d \in 1..Smallest(seq) : \A i \in 1..Len(seq) : seq[i] % d = 0}

Gcd(seq) ==
    CHOOSE d \in CommonDivisors(seq) : \A e \in CommonDivisors(seq) : e <= d

\* C15 as stated: with no declared resolution, raw durations [48, 24, 96] are
\* stored as [24, 12, 48] and raw durations [24, 12, 36] are stored unchanged.
C15_ImplicitExamples ==
    (HasScaler /\ lastOp.op = "load") =>
        /\ posted = Request(0, 0, Rests(<<48, 24, 96>>))
              => (Answered("ok") /\ Ticks(st) = <<24, 12, 48>>)
        /\ posted = Request(0, 0, Rests(<<24, 12, 36>>))
              => (Answered("ok") /\ Ticks(st) = <<24, 12, 36>>)

\* C15: with no declared resolution, raw durations [48, 24, 96] (GCD 24) and
\* [24, 12, 36] (GCD 12) are stored unchanged and not marked as scaled, while
\* [96, 48] (GCD 48) is stored as [48, 24] and marked as scaled.
C15_ImplicitExamplesByGcd ==
    (HasScaler /\ lastOp.op = "load") =>
        /\ posted = Request(0, 0, Rests(<<48, 24, 96>>))
              => /\ Answered("ok")
                 /\ Ticks(st) = <<48, 24, 96>>
                 /\ ~st.autoScaledTicks
        /\ posted = Request(0, 0, Rests(<<24, 12, 36>>))
              => /\ Answered("ok")
                 /\ Ticks(st) = <<24, 12, 36>>
                 /\ ~st.autoScaledTicks
        /\ posted = Request(0, 0, Rests(<<96, 48>>))
              => /\ Answered("ok")
                 /\ Ticks(st) = <<48, 24>>
                 /\ st.autoScaledTicks

\* [48, 24, 96] was posted without a resolution and stored as it came.
C15_Witness ==
    /\ HasScaler
    /\ Answered("ok")
    /\ posted = Request(0, 0, Rests(<<48, 24, 96>>))
    /\ Ticks(st) = <<48, 24, 96>>
    /\ ~st.autoScaledTicks

\* C16: with no declared resolution and g the GCD of the raw durations, the
\* durations to store are raw / (g / 24) when g is a multiple of 24 and the
\* raw values otherwise; if one of them is above 65535 the load is refused
\* with ticks_too_large, else it is accepted and they are what is stored.
C16_ImplicitRule ==
    (HasScaler /\ lastOp.op = "load" /\ posted.ticksPerQuarter = 0
       /\ WellFormed(posted)) =>
        LET raw == RawTicks(posted)
            g == Gcd(raw)
            wanted == [i \in 1..Len(raw) |->
                         IF g % 24 = 0 THEN raw[i] \div (g \div 24) ELSE raw[i]]
        IN IF \E i \in 1..Len(raw) : wanted[i] > 65535
           THEN Answered("ticks_too_large")
           ELSE Answered("ok") /\ Ticks(st) = wanted

\* A single duration of 98304 = 4096 * 24 was posted and stored as 24.
C16_Witness ==
    /\ HasScaler
    /\ Answered("ok")
    /\ posted = Request(0, 0, Rests(<<98304>>))
    /\ Ticks(st) = <<24>>

\* floor((d * 24 + floor(r / 2)) / r) for d = q * r + rest, written as
\* 24 * q + floor((24 * rest + floor(r / 2)) / r); beyond q = 65535 it is
\* above 65535 whatever the rest.
Rounded(d, r) ==
    IF d \div r > 65535 THEN 65536
    ELSE (d \div r) * 24 + ((d % r) * 24 + r \div 2) \div r

\* C17: with a declared resolution r in 1..65535 every raw duration d is
\* stored as floor((d*24 + floor(r/2)) / r), 0 stored as 1; a result above
\* 65535 refuses the load with ticks_after_scaling_out_of_range.
C17_ExplicitRule ==
    (HasScaler /\ lastOp.op = "load" /\ posted.ticksPerQuarter \in 1..65535
       /\ WellFormed(posted)) =>
        LET raw == RawTicks(posted)
            r == posted.ticksPerQuarter
        IN IF \E i \in 1..Len(raw) : Rounded(raw[i], r) > 65535
           THEN Answered("ticks_after_scaling_out_of_range")
           ELSE /\ Answered("ok")
                /\ Ticks(st) = [i \in 1..Len(raw) |->
                                  IF Rounded(raw[i], r) = 0 THEN 1
                                  ELSE Rounded(raw[i], r)]

\* d * 24 / r lies exactly halfway between two integers.
Halfway(d, r) == 2 * (((d % r) * 24) % r) = r

\* floor(d * 24 / r)
Below(d, r) == (d \div r) * 24 + ((d % r) * 24) \div r

ExplicitlyScaled ==
    /\ HasScaler
    /\ Answered("ok")
    /\ posted.ticksPerQuarter \in 1..65535

\* C18 as stated: a halfway value is stored as the even one of its two
\* neighbours (1 when that is 0).
C18_BankersRounding ==
    ExplicitlyScaled =>
        \A i \in 1..Len(posted.events) :
            LET d == posted.events[i].ticks
                r == posted.ticksPerQuarter
                even == IF Below(d, r) % 2 = 0 THEN Below(d, r)
                        ELSE Below(d, r) + 1
            IN (Halfway(d, r) /\ d \div r <= 2729)
                   => Ticks(st)[i] = (IF even = 0 THEN 1 ELSE even)

\* C18: a halfway value whose neighbours are at most 65535 is stored as the
\* larger of the two: ties round up.
C18_RoundsHalfUp ==
    ExplicitlyScaled =>
        \A i \in 1..Len(posted.events) :
            LET d == posted.events[i].ticks
                r == posted.ticksPerQuarter
            IN (Halfway(d, r) /\ d \div r <= 2729)
                   => Ticks(st)[i] = Below(d, r) + 1

\* 5 ticks at 48 per quarter are 2.5 clock ticks, stored as 3.
C18_Witness ==
    /\ ExplicitlyScaled
    /\ posted = Request(0, 48, Rests(<<5, 24>>))
    /\ Ticks(st) = <<3, 12>>

\* C19: a list of more than 64 items is refused with sequence_too_long and
\* an empty list with sequence_required, whatever the items are.
C19_LengthErrorsFirst ==
    lastOp.op = "load" =>
        /\ Len(posted.events) > MAX_EVENTS => Answered("sequence_too_long")
        /\ Len(posted.events) = 0 => Answered("sequence_required")

\* C20: every stored event below count has a duration from 1 to 65535.
C20_StoredTicksInRange ==
    /\ st.count <= Len(st.events)
    /\ \A i \in 1..st.count : st.events[i].ticks \in 1..MaxTicks

\* One tick at 100 per quarter scales to 0 and is stored as 1.
C20_Witness ==
    /\ HasScaler
    /\ Answered("ok")
    /\ posted = Request(0, 100, Rests(<<1>>))
    /\ Ticks(st) = <<1>>

\* The answer to the request kept in posted.
Reply == loadSequence(Enter(st), posted')

ItemError(item) ==
    IF item.ticks <= 0 THEN "ticks_must_be_positive"
    ELSE IF item.type \notin {"note", "rest"} THEN "invalid_event_type"
    ELSE IF item.type = "note" /\ item.note \notin 0..127
    THEN "note_out_of_range"
    ELSE ""

\* C27: for a list of 1..64 items with durations below 65536, the error
\* reported is that of the first invalid item: ticks_must_be_positive, else
\* invalid_event_type, else note_out_of_range; a list whose items are all
\* valid is not refused for a velocity, and a velocity outside 1..127 is
\* stored as 100.
C27_ItemErrorsInOrder ==
    (lastOp.op = "load" /\ Len(posted.events) \in 1..MAX_EVENTS
       /\ \A i \in 1..Len(posted.events) : posted.events[i].ticks < 65536
       /\ posted.ticksPerQuarter = 0) =>
        LET items == posted.events
            invalid == {i \in 1..Len(items) : ItemError(items[i]) # ""}
        IN IF invalid # {}
           THEN LET first == CHOOSE i \in invalid : \A j \in invalid : i <= j
                IN Answered(ItemError(items[first]))
           ELSE /\ Answered("ok")
                /\ \A i \in 1..Len(items) :
                      items[i].type = "note" =>
                          st.events[i].velocity =
                              (IF items[i].velocity \in 1..127
                               THEN items[i].velocity ELSE 100)

\* A list whose second item has a negative duration and a note out of range
\* was refused for the duration.
C27_Witness ==
    /\ Answered("ticks_must_be_positive")
    /\ posted = Request(0, 0, <<Rest1, Item("note", 128, 0, -1)>>)

-----------------------------------------------------------------------------
(* Properties of the engine's state *)

\* The stored sequence and its metadata.
Stored(s) ==
    [ events |-> s.events, count |-> s.count, channel |-> s.channel,
      sequenceLoaded |-> s.sequenceLoaded,
      sourceTicksPerQuarter |-> s.sourceTicksPerQuarter,
      appliedTicksPerQuarter |-> s.appliedTicksPerQuarter,
      ticksPerQuarterProvided |-> s.ticksPerQuarterProvided,
      autoScaledTicks |-> s.autoScaledTicks ]

\* C22: run from any reachable state, the clock handler, Start, Stop,
\* Continue and the button handler (a poll of either level, and the press
\* itself) leave the stored sequence as it was: events, count, channel,
\* sequenceLoaded and the timing metadata.
C22_HandlersKeepSequence ==
    \A after \in { handleMidiClock(Enter(st)), handleMidiStart(Enter(st)),
                   handleMidiStop(Enter(st)), handleMidiContinue(Enter(st)),
                   handleButton(Enter(st), LOW), handleButton(Enter(st), HIGH),
                   buttonPressed(Enter(st)) } :
        Stored(after) = Stored(st)

\* A MIDI Stop halted playback and the sequence is still loaded.
C22_Witness ==
    /\ lastOp = [op |-> "stop", arg |-> "stopped"]
    /\ ~st.playing
    /\ st.sequenceLoaded
    /\ st.count = 2

\* C23: with no sequence loaded (sequenceLoaded false or count 0), and with
\* the pending flag either way, beginPlayback() clears startPending and
\* changes nothing else: playing stays false, the cursor stays, nothing is
\* sent.
C23_BeginWithoutSequence ==
    (~st.sequenceLoaded \/ st.count = 0) =>
        \A pending \in BOOLEAN :
            LET before == [Enter(st) EXCEPT !.startPending = pending]
                after == beginPlayback(before)
            IN /\ after = [before EXCEPT !.startPending = FALSE]
               /\ ~after.playing
               /\ after.out = <<>>

\* MIDI Start arrived with nothing loaded and nothing began.
C23_Witness ==
    /\ lastOp.op = "start"
    /\ ~st.sequenceLoaded
    /\ st.midiRunning
    /\ ~st.playing
    /\ ~st.startPending

\* C28: playing and startPending are never both true.
C28_NotPlayingAndPending == ~(st.playing /\ st.startPending)

\* A press of D4 under a running transport began playback and used up the
\* pending intent.
C28_Witness ==
    /\ lastOp.op = "button"
    /\ st.buttonState = LOW
    /\ st.playing
    /\ st.midiRunning
    /\ ~st.startPending

\* C29: startPending implies that the transport is not running and that a
\* sequence is loaded, so the clock handler never finds the condition of its
\* begin-on-pulse branch true.
C29_PendingMeansStopped ==
    /\ st.startPending => (~st.midiRunning /\ st.sequenceLoaded)
    /\ ~(st.midiRunning /\ st.startPending /\ ~st.playing /\ st.sequenceLoaded)

\* A press of D4 armed playback while the transport was stopped.
C29_Witness ==
    /\ lastOp.op = "button"
    /\ st.startPending
    /\ ~st.midiRunning
    /\ st.sequenceLoaded

\* C30: noteActive implies playing; playing implies sequenceLoaded, an index
\* below count and, when a note is active, that activeNote is the note of the
\* current event; when not playing the cursor is reset.
C30_CursorConsistent ==
    /\ st.noteActive => st.playing
    /\ st.playing =>
          /\ st.sequenceLoaded
          /\ st.currentEventIndex < st.count
          /\ st.noteActive =>
                st.activeNote = st.events[st.currentEventIndex + 1].note
    /\ ~st.playing => CursorReset(st)

-----------------------------------------------------------------------------
(* The debounce of D4 *)

\* C25: a poll of D4 toggles only as a debounced press: the raw reading has
\* been LOW and unchanged for more than debounceDelay milliseconds since the
\* last change the polls saw, and the accepted state was HIGH and becomes
\* LOW, so a second toggle needs an accepted release first.  Any other poll
\* (a release, a level that has not settled, a level already accepted) leaves
\* everything but the debounce bookkeeping alone and sends nothing.
C25_DebouncedPress ==
    [][ lastOp'.op = "button" =>
          /\ PressStep =>
                /\ st.sinceDebounce > debounceDelay
                /\ st.lastButtonReading = LOW
                /\ st'.lastButtonReading = LOW
                /\ st'.sinceDebounce = st.sinceDebounce
                /\ SansButton(st') = SansButton(buttonPressed(Enter(st)))
          /\ ~PressStep =>
                /\ SansButton(st') = SansButton(st)
                /\ st'.out = <<>>
          /\ st'.buttonState # st.buttonState =>
                st.sinceDebounce > debounceDelay ]_vars

\* A press held for just over debounceDelay armed playback.
C25_Witness ==
    /\ lastOp.op = "button"
    /\ st.buttonState = LOW
    /\ st.lastButtonReading = LOW
    /\ st.sinceDebounce = debounceDelay + 1
    /\ st.startPending

-----------------------------------------------------------------------------
(* The countdown engine on its own *)

\* The ticks of the first k stored events.
RECURSIVE TicksThrough(_, _)
TicksThrough(s, k) ==
    IF k = 0 THEN 0 ELSE TicksThrough(s, k - 1) + s.events[k].ticks

\* Pulses counted so far by a playing countdown: the events behind the cursor
\* and the part of the current one already counted down.
Position(s) ==
    TicksThrough(s, s.currentEventIndex + 1) - s.ticksRemaining

\* C26: in the countdown variant, playback begins at position 0 of event 0
\* with the transport running; every pulse advances the position by exactly
\* one, moves to the next event (Note Off, then the next event's Note On)
\* exactly when the ticks through the current event are used up, and stops
\* playback exactly on the pulse whose number is the sum of the stored ticks,
\* with no note left sounding; and if pulses keep arriving, a playing
\* sequence eventually stops.
C26_CountdownRunsToTheEnd ==
    /\ [][ (~st.playing /\ st'.playing) =>
              /\ st'.midiRunning
              /\ st'.currentEventIndex = 0
              /\ Position(st') = 0 ]_vars
    /\ [][ lastOp'.op = "pulse" =>
              LET k == st.currentEventIndex
                  n == Position(st) + 1
                  ends == n = TicksThrough(st, k + 1)
                  off == IF st.noteActive
                         THEN <<NoteOff(st.events[k + 1].note, st.onChannel)>>
                         ELSE <<>>
              IN /\ st.noteActive = st.events[k + 1].isNote
                 /\ st.unmatched = (IF st.noteActive THEN 1 ELSE 0)
                 /\ IF n < TicksThrough(st, st.count)
                    THEN /\ st'.playing
                         /\ Position(st') = n
                         /\ st'.currentEventIndex = (IF ends THEN k + 1 ELSE k)
                         /\ st'.out = (IF ends
                                       THEN off \o StartOf(st.events[k + 2],
                                                           OutChannel(st))
                                       ELSE <<>>)
                    ELSE /\ n = TicksThrough(st, st.count)
                         /\ k = st.count - 1
                         /\ ~st'.playing
                         /\ ~st'.noteActive
                         /\ st'.unmatched = 0
                         /\ st'.out = off ]_vars
    /\ (st.playing ~> ~st.playing)

\* The last pulse of a sequence of two events ended it with a Note Off.
C26_Witness ==
    /\ lastOp.op = "pulse"
    /\ ~st.playing
    /\ st.count = 2
    /\ st.midiRunning
    /\ Len(st.out) = 1
    /\ st.out[1].type = "off"

-----------------------------------------------------------------------------
(* The loop of the clock handler *)

\* C24: the loop of the clock handler ends on every pulse, after finishing
\* no more events than the sequence holds, in the engine that stops at the
\* end and in the one that loops.
C24_ClockLoopEnds ==
    /\ ~st.spin
    /\ Len(st.done) <= st.count

-----------------------------------------------------------------------------
(* The tick positions of the absolute engine *)

\* C31: in the engines that compare tick positions, whenever playing is true
\* between two handlers, clockPosition < eventEndTick and eventEndTick is at
\* most clockPosition plus the ticks of the current event: between 1 and the
\* stored duration of the event remain.
C31_RemainingTimeInRange ==
    (~Countdown /\ st.playing) =>
        /\ st.clockPosition < st.eventEndTick
        /\ st.eventEndTick <=
              st.clockPosition + st.events[st.currentEventIndex + 1].ticks

-----------------------------------------------------------------------------
(* The two timing engines side by side *)

\* C32: after the same loads and the same clock pulses, Starts, Stops,
\* Continues and presses of D4, the board with absolute tick positions and the
\* board with the countdown have sent the same messages for the last event and
\* agree on playing, startPending, midiRunning and currentEventIndex, and
\* while playing the countdown equals eventEndTick - clockPosition.
C32_EnginesAgree ==
    (sketch = "Rest" /\ lastOp.arg # "one") =>
        /\ st.out = twin.out
        /\ st.playing = twin.playing
        /\ st.startPending = twin.startPending
        /\ st.midiRunning = twin.midiRunning
        /\ st.currentEventIndex = twin.currentEventIndex
        /\ st.playing => twin.ticksRemaining = st.eventEndTick - st.clockPosition

-----------------------------------------------------------------------------
(* Events finished by one pulse *)

\* C33: one handler run finishes at most one event: the body of the clock
\* handler's loop runs at most once per pulse, so two events never complete
\* on the same pulse.
C33_OneEventPerPulse == Len(st.done) <= 1

-----------------------------------------------------------------------------
(* Button and Start in either order *)

\* A poll of D4 in this state would be accepted as a press.
PressDue(s) ==
    /\ s.buttonState = HIGH
    /\ s.lastButtonReading = LOW
    /\ s.sinceDebounce > debounceDelay

\* C34: with a sequence loaded, the engine idle and unarmed and the transport
\* stopped, a press of D4 followed by MIDI Start and MIDI Start followed by
\* the press leave the same globals and have sent the same messages: playing
\* at index 0, startPending false, midiRunning true, and the first event's
\* Note On if it is a note.
C34_ButtonAndStartCommute ==
    (st.sequenceLoaded /\ ~st.playing /\ ~st.startPending /\ ~st.midiRunning) =>
        LET s == Enter(st)
            pressFirst == handleMidiStart(buttonPressed(s))
            startFirst == buttonPressed(handleMidiStart(s))
        IN /\ pressFirst = startFirst
           /\ FirstEventStarted(pressFirst)
           /\ ~pressFirst.startPending
           /\ pressFirst.midiRunning
           /\ pressFirst.out = StartOf(st.events[1], OutChannel(st))
           /\ PressDue(st) =>
                 handleMidiStart(handleButton(s, LOW))
                     = handleButton(handleMidiStart(s), LOW)

\* MIDI Start began an armed playback with the first note.
C34_Witness ==
    /\ lastOp.op = "start"
    /\ st.playing
    /\ st.midiRunning
    /\ ~st.startPending
    /\ st.currentEventIndex = 0
    /\ st.buttonState = LOW
    /\ st.out = <<NoteOn(62, DefaultVelocity, 1)>>

-----------------------------------------------------------------------------
(* The trigger button's note at the receiver *)

\* C35: at a receiver, the trigger note sounds for as long as the trigger
\* button is accepted as pressed and on no channel once it is accepted as
\* released: the Note Off of the release reaches the channel of the Note On
\* of the press whatever was loaded or played in between, and nothing else
\* switches the trigger note off.  (The sequences loaded here hold no note
\* TRIGGER_NOTE, so every key of that note is the trigger's.)
C35_TriggerNoteMatched ==
    HasTrigger =>
        /\ st.triggerButtonState = LOW =>
              \E key \in sounding : key[2] = TRIGGER_NOTE
        /\ st.triggerButtonState = HIGH =>
              \A key \in sounding : key[2] # TRIGGER_NOTE

-----------------------------------------------------------------------------
(* Event durations and the width of the counters *)

\* C36: in the looping engine with counters of fixed width, a pulse that
\* arrives while the current event has time left (clockPosition below
\* eventEndTick) finishes only events that have lasted exactly their stored
\* ticks, also where clockPosition + ticks passes the top of the counter.
C36_DurationsSurviveWrap ==
    [][ (Looping /\ lastOp'.op = "clock" /\ st.playing
           /\ st.clockPosition < st.eventEndTick) =>
          \A i \in 1..Len(st'.done) :
              st'.done[i].pulses = st'.done[i].ticks ]_vars

-----------------------------------------------------------------------------
(* Implicit scaling loses nothing *)

\* C37: an accepted load without a declared resolution is auto-scaled exactly
\* when the GCD g of the raw durations is a multiple of 24 above 24; then,
\* with f = g / 24, every stored duration times f is its raw duration, the
\* GCD of the stored durations is 24, the recorded source resolution is
\* min(24 * f, 65535), and no raw duration falls below f (nothing is raised
\* from 0 to 1).
C37_ImplicitScalingLossless ==
    (HasScaler /\ Answered("ok") /\ posted.ticksPerQuarter = 0) =>
        LET raw == RawTicks(posted)
            g == Gcd(raw)
            f == g \div AppliedTicksPerQuarter
        IN /\ st.autoScaledTicks = (g % AppliedTicksPerQuarter = 0 /\ f > 1)
           /\ st.autoScaledTicks =>
                 /\ \A i \in 1..Len(raw) :
                       /\ raw[i] >= f
                       /\ st.events[i].ticks * f = raw[i]
                 /\ Gcd(Ticks(st)) = AppliedTicksPerQuarter
                 /\ st.sourceTicksPerQuarter =
                       (IF AppliedTicksPerQuarter * f > MaxTicks
                        THEN MaxTicks ELSE AppliedTicksPerQuarter * f)

\* Durations 96 and 48 were posted and stored as 48 and 24, at a recorded
\* source resolution of 48.
C37_Witness ==
    /\ HasScaler
    /\ Answered("ok")
    /\ posted = Request(0, 0, Rests(<<96, 48>>))
    /\ st.autoScaledTicks
    /\ Ticks(st) = <<48, 24>>
    /\ st.sourceTicksPerQuarter = 48

=============================================================================
